---- MODULE Spec2Model ----
(***************************************************************************)
(* Request / assignment / return lifecycle of the inventory tool           *)
(* (app/blueprints/admin/routes.py and app/blueprints/staff/routes.py).    *)
(*                                                                         *)
(* Every HTTP handler runs in its own database session: it SELECTs the     *)
(* rows it needs, checks them in Python, changes attributes of the loaded  *)
(* objects and calls db.session.commit(), which writes the attribute       *)
(* values computed in Python (UPDATE ... SET quantity_available = <value>) *)
(* in one transaction.  Each SELECT and each commit is one step of the     *)
(* model; steps of different handlers interleave freely (the store gives   *)
(* read-committed consistency: a SELECT sees what has been committed).     *)
(***************************************************************************)
EXTENDS Integers, Sequences, FiniteSets, TLC

\* ---------------------------------------------------------------- bounds
MaxQty == 1            \* largest initial quantity_available of an item
MaxCalls == 3          \* handler invocations in one behaviour
ScenarioQty == 2       \* stock of each item in the exhaustion scenario

Procs == {1, 2}         \* handlers: two calls may be in flight at a time
ItemIds == {1, 2}
StaffIds == {1, 2}

VARIABLES
    items,        \* ids of the inventory_item rows that exist
    qty,          \* qty[i]: committed inventory_item.quantity_available
    requests,     \* item_request rows, id = index: [staff, status]
    assignments,  \* item_assignment rows, id = index: [item, staff, status]
                  \*   and history: req (the request it was approved for, 0
                  \*   for none), pre and w0 (qty and wr of its item when
                  \*   the call that created it was invoked)
    pc,           \* pc[p]: position of handler p
    call,         \* call[p]: the call p is handling, with history: q0, s0
                  \*   and w0 (quantity, status and wr of its target when
                  \*   it was invoked), had (complete_return: the item row
                  \*   existed when it was invoked), conc (the handlers whose present call
                  \*   was in flight at some time while this one was), more
                  \*   (a call that overlapped it is no longer a present one)
    rd,           \* rd[p]: values the session of p has loaded
    out,          \* out[p]: history, the call p handled last and its outcome
    calls,        \* history: number of handler invocations so far
    qty0,         \* history: qty of the initial state
    wr            \* history: wr[i] counts the committed writes of qty[i]

vars == <<items, qty, requests, assignments, pc, call, rd, out, calls, qty0, wr>>

NoCall == [op |-> "none", req |-> 0, item |-> 0, staff |-> 0, asg |-> 0,
           q0 |-> 0, s0 |-> "none", w0 |-> 0, had |-> FALSE, conc |-> {},
           more |-> FALSE]
NoRead == [q |-> 0, staff |-> 0, hasItem |-> FALSE]
Outcome(c, res, made) == [call |-> c, res |-> res, made |-> made]
NoOut == Outcome(NoCall, "none", 0)

\* ------------------------------------------------------------- helpers
\* admin/routes.py _available_item_choices: ids of the items with
\* quantity_available > 0 (the choices of the item_id select field).
AvailableItemChoices == {i \in items : qty[i] > 0}

\* admin/routes.py _staff_choices: ids of all staff users.
StaffChoices == StaffIds

\* The availability test of approve_request and manual_assignment.
UnavailableLoose(q) == q < 0
Unavailable(q) == q <= 0

\* item.quantity_available -= 1, computed on the loaded value.
Debit(q) == q - 1

\* assignment.item.quantity_available += 1, computed on the loaded value.
CreditNone(q) == q
Credit(q) == q + 1

\* request_return's decision on the loaded status.
ReturnDecisionNoRepeat(status) ==
    IF status \notin {"assigned", "return_requested"} THEN "InvalidState"
    ELSE "Proceed"
ReturnDecisionAnyStatus(status) ==
    IF status = "return_requested" THEN "AlreadyRequested" ELSE "Proceed"
ReturnDecision(status) ==
    IF status \notin {"assigned", "return_requested"} THEN "InvalidState"
    ELSE IF status = "return_requested" THEN "AlreadyRequested"
    ELSE "Proceed"

\* staff/routes.py submit_request: the row it inserts (status defaults to
\* pending).
NewRequestApproved(s) == [staff |-> s, status |-> "approved"]
NewRequest(s) == [staff |-> s, status |-> "pending"]

\* staff/routes.py request_return: filter_by(id, staff_id) finds a row.
OwnedByAnyone(a, s) == a \in DOMAIN assignments
OwnedBy(a, s) == a \in DOMAIN assignments /\ assignments[a].staff = s

\* first_or_404: the outcome when the filter finds no row.
ReturnMissLeaky(a) == IF a \in DOMAIN assignments THEN "Forbidden" ELSE "NotFound"
ReturnMiss(a) == "NotFound"

\* complete_return's test of the loaded status.
CompletableUnlessReturned(status) == status # "returned"
Completable(status) == status = "return_requested"

\* complete_return, "if assignment.item": the lazy load found the item row.
ItemLoadedAlways(i) == TRUE
ItemLoaded(i) == i \in items

\* Status of a request / an assignment in the committed state ("absent"
\* when there is no such row); quantity of an item (0 when absent).
RequestStatus(r) == IF r \in DOMAIN requests THEN requests[r].status ELSE "absent"
AssignmentStatus(a) ==
    IF a \in DOMAIN assignments THEN assignments[a].status ELSE "absent"
Quantity(i) == IF i \in items THEN qty[i] ELSE 0
Writes(i) == IF i \in items THEN wr[i] ELSE 0

\* Ids a caller may name: those of the rows that exist, and the next one.
RequestIds == 1..(Len(requests) + 1)
AssignmentIds == 1..(Len(assignments) + 1)

\* Handlers in flight.
InFlight == {p \in Procs : pc[p] # "idle"}

\* A request reaches handler p, the first idle one (handlers are
\* interchangeable).
Invoke(p) ==
    /\ pc[p] = "idle"
    /\ \A q \in Procs : q < p => pc[q] # "idle"
    /\ calls < MaxCalls
    /\ calls' = calls + 1

\* call and out once handler p has been invoked with the call c: c
\* overlaps the calls in flight, the call p handled before is no longer its
\* present one, and the outcome p kept is forgotten (all outcomes are, when
\* no handler is in flight).
Started(p, c) ==
    [q \in Procs |->
       IF q = p THEN [c EXCEPT !.conc = InFlight]
       ELSE IF q \in InFlight
         THEN [call[q] EXCEPT !.conc = @ \cup {p}, !.more = @ \/ p \in call[q].conc]
       ELSE call[q]]
Kept(p) ==
    [q \in Procs |->
       IF q = p \/ InFlight = {} \/ out[q] = NoOut THEN NoOut
       ELSE [out[q] EXCEPT !.call.conc = @ \ {p}, !.call.more = @ \/ p \in out[q].call.conc]]

\* Handler p is invoked with c and goes on to position l.
BeginGo(p, c, l) ==
    /\ Invoke(p)
    /\ pc' = [pc EXCEPT ![p] = l]
    /\ call' = Started(p, c)
    /\ out' = Kept(p)
    /\ rd' = rd

\* Handler p is invoked with c and redirects at once with the outcome res.
BeginEnd(p, c, res) ==
    /\ Invoke(p)
    /\ pc' = pc
    /\ call' = call
    /\ out' = [Kept(p) EXCEPT ![p] = Outcome(Started(p, c)[p], res, 0)]
    /\ rd' = rd

\* Handler p goes on to position l having loaded r.
Goto(p, l, r) ==
    /\ pc' = [pc EXCEPT ![p] = l]
    /\ rd' = [rd EXCEPT ![p] = r]
    /\ UNCHANGED <<call, out, calls>>

\* Handler p redirects with the outcome res, having added made assignments;
\* its session is closed.
Finish(p, res, made) ==
    /\ pc' = [pc EXCEPT ![p] = "idle"]
    /\ call' = [call EXCEPT ![p] = NoCall]
    /\ rd' = [rd EXCEPT ![p] = NoRead]
    /\ out' = [out EXCEPT ![p] = Outcome(call[p], res, made)]
    /\ UNCHANGED calls

\* db.session.commit() raises: the UPDATE of a loaded item row matches no
\* row (the row was deleted after the load), the transaction is rolled back
\* and the call ends with a server error.
CommitFails(p) ==
    /\ Finish(p, "ServerError", 0)
    /\ UNCHANGED <<qty, requests, assignments, wr>>

\* The committed write of the quantity v of item i.
WriteQuantityLost(i, v) == UNCHANGED <<qty, wr>>
WriteQuantity(i, v) ==
    /\ qty' = [qty EXCEPT ![i] = v]
    /\ wr' = [wr EXCEPT ![i] = @ + 1]

\* ---------------------------------------------------------------- Init
\* The store holds the items with some stock and no assignment; either no
\* request has been submitted, or every staff member has submitted one that
\* no admin has processed yet.
PendingRequests == [k \in StaffIds |-> [staff |-> k, status |-> "pending"]]

Init ==
    /\ items = ItemIds
    /\ qty \in {q \in [ItemIds -> 0..MaxQty] : q[2] = MaxQty}
    /\ qty0 = qty
    /\ wr = [i \in ItemIds |-> 0]
    /\ requests \in {<< >>, PendingRequests}
    /\ assignments = << >>
    /\ pc = [p \in Procs |-> "idle"]
    /\ call = [p \in Procs |-> NoCall]
    /\ rd = [p \in Procs |-> NoRead]
    /\ out = [p \in Procs |-> NoOut]
    /\ calls = 0

\* ------------------------------------------------------- submit_request
\* staff/routes.py lines 52-61: insert a request row (status defaults to
\* pending) and commit.
SubmitRequest(p, s) ==
    /\ BeginEnd(p, [NoCall EXCEPT !.op = "submit", !.staff = s,
                                  !.req = Len(requests) + 1], "Success")
    /\ requests' = Append(requests, NewRequest(s))
    /\ UNCHANGED <<items, qty, assignments, qty0, wr>>

\* ------------------------------------------------------ approve_request
ApproveCall(r, i) ==
    [NoCall EXCEPT !.op = "approve", !.req = r, !.item = i, !.q0 = Quantity(i),
                   !.s0 = RequestStatus(r), !.w0 = Writes(i)]

\* Lines 166-174: the item choices are read and the form is validated; an
\* item_id that is not among the choices fails validation.
ApproveValidate(p, r, i) ==
    /\ IF i \in AvailableItemChoices
         THEN BeginGo(p, ApproveCall(r, i), "ap_req")
         ELSE BeginEnd(p, ApproveCall(r, i), "ValidationFailed")
    /\ UNCHANGED <<items, qty, requests, assignments, qty0, wr>>

\* Lines 176-179: load the request, stop unless it is pending.
ApproveGetRequest(p) ==
    /\ pc[p] = "ap_req"
    /\ LET r == call[p].req IN
         IF r \notin DOMAIN requests
           THEN Finish(p, "NotFound", 0)
         ELSE IF requests[r].status # "pending"
           THEN Finish(p, "AlreadyProcessed", 0)
         ELSE Goto(p, "ap_item", [rd[p] EXCEPT !.staff = requests[r].staff])
    /\ UNCHANGED <<items, qty, requests, assignments, qty0, wr>>

\* Lines 181-184: load the item, stop when no unit is available.
ApproveGetItem(p) ==
    /\ pc[p] = "ap_item"
    /\ LET i == call[p].item IN
         IF i \notin items
           THEN Finish(p, "NotFound", 0)
         ELSE IF Unavailable(qty[i])
           THEN Finish(p, "ItemUnavailable", 0)
         ELSE Goto(p, "ap_commit", [rd[p] EXCEPT !.q = qty[i]])
    /\ UNCHANGED <<items, qty, requests, assignments, qty0, wr>>

\* Lines 186-195: one commit writes the new quantity computed from the
\* loaded one, the request status and the new assignment row.
ApproveCommit(p) ==
    /\ pc[p] = "ap_commit"
    /\ LET i == call[p].item
           r == call[p].req IN
         IF i \in items
           THEN /\ WriteQuantity(i, Debit(rd[p].q))
                /\ requests' = [requests EXCEPT ![r].status = "approved"]
                /\ assignments' = Append(assignments,
                       [item |-> i, staff |-> rd[p].staff, status |-> "assigned",
                        req |-> r, pre |-> call[p].q0, w0 |-> call[p].w0])
                /\ Finish(p, "Success", 1)
           ELSE CommitFails(p)
    /\ UNCHANGED <<items, qty0>>

\* ------------------------------------------------------- reject_request
RejectCall(r) == [NoCall EXCEPT !.op = "reject", !.req = r, !.s0 = RequestStatus(r)]

\* Lines 217-220: load the request, stop unless it is pending.
RejectGetRequest(p, r) ==
    /\ IF r \notin DOMAIN requests
         THEN BeginEnd(p, RejectCall(r), "NotFound")
       ELSE IF requests[r].status # "pending"
         THEN BeginEnd(p, RejectCall(r), "AlreadyProcessed")
       ELSE BeginGo(p, RejectCall(r), "rj_commit")
    /\ UNCHANGED <<items, qty, requests, assignments, qty0, wr>>

\* Lines 222-223: commit the status.
RejectCommit(p) ==
    /\ pc[p] = "rj_commit"
    /\ requests' = [requests EXCEPT ![call[p].req].status = "rejected"]
    /\ Finish(p, "Success", 0)
    /\ UNCHANGED <<items, qty, assignments, qty0, wr>>

\* ---------------------------------------------------- manual_assignment
ManualCall(i, s) ==
    [NoCall EXCEPT !.op = "manual", !.item = i, !.staff = s, !.q0 = Quantity(i),
                   !.w0 = Writes(i)]

\* Lines 235-243: item and staff choices are read and the form validated.
ManualValidate(p, i, s) ==
    /\ IF i \in AvailableItemChoices /\ s \in StaffChoices
         THEN BeginGo(p, ManualCall(i, s), "ma_item")
         ELSE BeginEnd(p, ManualCall(i, s), "ValidationFailed")
    /\ UNCHANGED <<items, qty, requests, assignments, qty0, wr>>

\* Lines 245-249: load the item and the staff user, stop when no unit is
\* available.
ManualGetItem(p) ==
    /\ pc[p] = "ma_item"
    /\ LET i == call[p].item IN
         IF i \notin items
           THEN Finish(p, "NotFound", 0)
         ELSE IF Unavailable(qty[i])
           THEN Finish(p, "ItemUnavailable", 0)
         ELSE Goto(p, "ma_commit", [rd[p] EXCEPT !.q = qty[i], !.staff = call[p].staff])
    /\ UNCHANGED <<items, qty, requests, assignments, qty0, wr>>

\* Lines 251-259: one commit writes the new quantity and the assignment.
ManualCommit(p) ==
    /\ pc[p] = "ma_commit"
    /\ LET i == call[p].item IN
         IF i \in items
           THEN /\ WriteQuantity(i, Debit(rd[p].q))
                /\ assignments' = Append(assignments,
                       [item |-> i, staff |-> rd[p].staff, status |-> "assigned",
                        req |-> 0, pre |-> call[p].q0, w0 |-> call[p].w0])
                /\ requests' = requests
                /\ Finish(p, "Success", 1)
           ELSE CommitFails(p)
    /\ UNCHANGED <<items, qty0>>

\* ------------------------------------------------------- request_return
ReturnCall(a, s) ==
    [NoCall EXCEPT !.op = "return", !.asg = a, !.staff = s,
                   !.s0 = AssignmentStatus(a)]

\* staff/routes.py lines 118-128: load the assignment by id and owner, then
\* decide on its status.
ReturnGetAssignment(p, a, s) ==
    /\ IF ~OwnedBy(a, s)
         THEN BeginEnd(p, ReturnCall(a, s), ReturnMiss(a))
       ELSE IF ReturnDecision(assignments[a].status) # "Proceed"
         THEN BeginEnd(p, ReturnCall(a, s), ReturnDecision(assignments[a].status))
       ELSE BeginGo(p, ReturnCall(a, s), "rr_commit")
    /\ UNCHANGED <<items, qty, requests, assignments, qty0, wr>>

\* Lines 130-131: commit the status.
ReturnCommit(p) ==
    /\ pc[p] = "rr_commit"
    /\ assignments' = [assignments EXCEPT ![call[p].asg].status = "return_requested"]
    /\ Finish(p, "Success", 0)
    /\ UNCHANGED <<items, qty, requests, qty0, wr>>

\* ------------------------------------------------------ complete_return
CompleteCall(a) ==
    IF a \in DOMAIN assignments
      THEN [NoCall EXCEPT !.op = "complete", !.asg = a,
                          !.item = assignments[a].item,
                          !.q0 = Quantity(assignments[a].item),
                          !.s0 = assignments[a].status,
                          !.w0 = Writes(assignments[a].item),
                          !.had = assignments[a].item \in items]
      ELSE [NoCall EXCEPT !.op = "complete", !.asg = a, !.s0 = "absent"]

\* admin/routes.py lines 281-284: load the assignment, stop unless a return
\* was requested.
CompleteGetAssignment(p, a) ==
    /\ IF a \notin DOMAIN assignments
         THEN BeginEnd(p, CompleteCall(a), "NotFound")
       ELSE IF ~Completable(assignments[a].status)
         THEN BeginEnd(p, CompleteCall(a), "InvalidState")
       ELSE BeginGo(p, CompleteCall(a), "cr_item")
    /\ UNCHANGED <<items, qty, requests, assignments, qty0, wr>>

\* Line 288: assignment.item is loaded lazily.
CompleteGetItem(p) ==
    /\ pc[p] = "cr_item"
    /\ LET i == call[p].item IN
         Goto(p, "cr_commit", [rd[p] EXCEPT !.hasItem = ItemLoaded(i), !.q = Quantity(i)])
    /\ UNCHANGED <<items, qty, requests, assignments, qty0, wr>>

\* Lines 286-290: one commit writes the status (and return date) and, when
\* the item was found, the new quantity computed from the loaded one; an
\* item that was found and has been deleted since makes the commit fail.
CompleteCommit(p) ==
    /\ pc[p] = "cr_commit"
    /\ LET i == call[p].item IN
         IF rd[p].hasItem /\ i \notin items
           THEN CommitFails(p)
           ELSE /\ assignments' =
                       [assignments EXCEPT ![call[p].asg].status = "returned"]
                /\ IF rd[p].hasItem
                     THEN WriteQuantity(i, Credit(rd[p].q))
                     ELSE UNCHANGED <<qty, wr>>
                /\ requests' = requests
                /\ Finish(p, "Success", 0)
    /\ UNCHANGED <<items, qty0>>

\* ----------------------------------------------------- inventory_delete
DeleteCall(i) == [NoCall EXCEPT !.op = "delete", !.item = i, !.q0 = Quantity(i)]

\* What the store does with the delete of an item that assignments still
\* reference: refuse it (foreign key), or keep the assignments without
\* their item.
DeletePolicies == {"block", "orphan"}
Referenced(i) == \E a \in DOMAIN assignments : assignments[a].item = i

\* admin/routes.py lines 415-418: load the item (404 when absent).
DeleteGetItem(p, i) ==
    /\ IF i \notin items
         THEN BeginEnd(p, DeleteCall(i), "NotFound")
         ELSE BeginGo(p, DeleteCall(i), "del_commit")
    /\ UNCHANGED <<items, qty, requests, assignments, qty0, wr>>

\* Lines 418-419: delete the row and commit.
DeleteCommit(p, policy) ==
    /\ pc[p] = "del_commit"
    /\ LET i == call[p].item IN
         IF i \in items /\ Referenced(i) /\ policy = "block"
           THEN /\ items' = items
                /\ Finish(p, "ServerError", 0)
           ELSE /\ items' = items \ {i}
                /\ Finish(p, "Success", 0)
    /\ UNCHANGED <<qty, requests, assignments, qty0, wr>>

\* ---------------------------------------------------------------- Next
Next ==
    \/ \E p \in Procs, s \in StaffIds : SubmitRequest(p, s)
    \/ \E p \in Procs, r \in RequestIds, i \in ItemIds : ApproveValidate(p, r, i)
    \/ \E p \in Procs : ApproveGetRequest(p)
    \/ \E p \in Procs : ApproveGetItem(p)
    \/ \E p \in Procs : ApproveCommit(p)
    \/ \E p \in Procs, r \in RequestIds : RejectGetRequest(p, r)
    \/ \E p \in Procs : RejectCommit(p)
    \/ \E p \in Procs, i \in ItemIds, s \in StaffIds : ManualValidate(p, i, s)
    \/ \E p \in Procs : ManualGetItem(p)
    \/ \E p \in Procs : ManualCommit(p)
    \/ \E p \in Procs, a \in AssignmentIds, s \in StaffIds : ReturnGetAssignment(p, a, s)
    \/ \E p \in Procs : ReturnCommit(p)
    \/ \E p \in Procs, a \in AssignmentIds : CompleteGetAssignment(p, a)
    \/ \E p \in Procs : CompleteGetItem(p)
    \/ \E p \in Procs : CompleteCommit(p)

Spec == Init /\ [][Next]_vars

\* ------------------------------------------------- the return lifecycle
\* A store in which staff member 1 holds assignments of item 1 in every
\* status, and in which the admin may also delete items.
InitialAssignments ==
    [k \in 1..3 |->
        [item |-> 1, staff |-> 1,
         status |-> <<"assigned", "return_requested", "returned">>[k],
         req |-> 0, pre |-> 0, w0 |-> 0]]

InitReturns ==
    /\ items = ItemIds
    /\ qty = [i \in ItemIds |-> MaxQty]
    /\ qty0 = qty
    /\ wr = [i \in ItemIds |-> 0]
    /\ requests = << >>
    /\ assignments = InitialAssignments
    /\ pc = [p \in Procs |-> "idle"]
    /\ call = [p \in Procs |-> NoCall]
    /\ rd = [p \in Procs |-> NoRead]
    /\ out = [p \in Procs |-> NoOut]
    /\ calls = 0

NextReturns ==
    \/ Next
    \/ \E p \in Procs, i \in ItemIds : DeleteGetItem(p, i)
    \/ \E p \in Procs, policy \in DeletePolicies : DeleteCommit(p, policy)

SpecReturns == InitReturns /\ [][NextReturns]_vars

\* ----------------------------------------------- the exhaustion scenario
\* Every item has ScenarioQty units and staff have submitted one request
\* more than that, all pending.
ScenarioRequests ==
    [k \in 1..(ScenarioQty + 1) |-> NewRequest(((k - 1) % Cardinality(StaffIds)) + 1)]

InitScenario ==
    /\ items = ItemIds
    /\ qty = [i \in ItemIds |-> ScenarioQty]
    /\ qty0 = qty
    /\ wr = [i \in ItemIds |-> 0]
    /\ requests = ScenarioRequests
    /\ assignments = << >>
    /\ pc = [p \in Procs |-> "idle"]
    /\ call = [p \in Procs |-> NoCall]
    /\ rd = [p \in Procs |-> NoRead]
    /\ out = [p \in Procs |-> NoOut]
    /\ calls = 0

SpecScenario == InitScenario /\ [][Next]_vars

\* ============================================================== claims
\* Handler p redirects in this step: it ends a call it had in flight, or it
\* is invoked and ends the call at once.
FirstIdle(p) == pc[p] = "idle" /\ \A q \in Procs : q < p => pc[q] # "idle"
Finishes(p) ==
    \/ pc[p] # "idle" /\ pc'[p] = "idle"
    \/ calls' # calls /\ FirstIdle(p) /\ pc'[p] = "idle"

\* Assignments of item i that hold a unit (assigned or return_requested).
Holding(i) == {a \in DOMAIN assignments :
                 /\ assignments[a].item = i
                 /\ assignments[a].status \in {"assigned", "return_requested"}}

\* The calls p and q ended are two calls that overlapped each other and no
\* other call.
RacedPair(p, q) ==
    /\ p # q
    /\ pc[p] = "idle" /\ pc[q] = "idle"
    /\ out[p] # NoOut /\ out[q] # NoOut
    /\ out[p].call.conc = {q} /\ out[q].call.conc = {p}
    /\ ~out[p].call.more /\ ~out[q].call.more

\* C1: in every reachable state every inventory item has
\* quantity_available >= 0.
C1_QuantityNonNegative == \A i \in items : qty[i] >= 0

\* C1 witness: an allocation has taken the last unit of an item.
C1_Witness ==
    \E a \in DOMAIN assignments :
        qty[assignments[a].item] = 0 /\ qty0[assignments[a].item] > 0

\* C2: conservation: for every item the initial quantity equals the current
\* quantity plus the number of its assignments that are assigned or
\* return_requested.
C2_Conservation == \A i \in items : qty0[i] = qty[i] + Cardinality(Holding(i))

\* C3: exhaustion race: two allocation calls (approve_request on distinct
\* pending requests, or manual_assignment) on the same item, each invoked
\* while the item had quantity 1 and overlapping only each other, end with
\* exactly one success that created one assignment and exactly one
\* ItemUnavailable that created none.
C3_ExhaustionRace ==
    \A p, q \in Procs :
        ( /\ RacedPair(p, q)
          /\ out[p].call.op \in {"approve", "manual"}
          /\ out[q].call.op \in {"approve", "manual"}
          /\ out[p].call.item = out[q].call.item
          /\ out[p].call.q0 = 1 /\ out[q].call.q0 = 1
          /\ out[p].call.op = "approve" => out[p].call.s0 = "pending"
          /\ out[q].call.op = "approve" => out[q].call.s0 = "pending"
          /\ (out[p].call.op = "approve" /\ out[q].call.op = "approve")
                => out[p].call.req # out[q].call.req )
        => \E w, l \in {p, q} :
              /\ w # l
              /\ out[w].res = "Success" /\ out[w].made = 1
              /\ out[l].res = "ItemUnavailable" /\ out[l].made = 0

\* C4: no double approval: two approve_request calls on the same pending
\* request that overlapped only each other (the items they name having held
\* enough units for both when they were invoked, so that availability is
\* not at issue) create exactly one assignment, lower the inventory by
\* exactly 1 in total, and the other call ends AlreadyProcessed.
C4_NoDoubleApproval ==
    \A p, q \in Procs :
        ( /\ RacedPair(p, q)
          /\ out[p].call.op = "approve" /\ out[q].call.op = "approve"
          /\ out[p].call.req = out[q].call.req
          /\ out[p].call.s0 = "pending" /\ out[q].call.s0 = "pending"
          /\ out[p].call.q0 > 0 /\ out[q].call.q0 > 0
          /\ out[p].call.item = out[q].call.item => out[p].call.q0 > 1 )
        => /\ out[p].made + out[q].made = 1
           /\ Cardinality({a \in DOMAIN assignments :
                              assignments[a].req = out[p].call.req}) = 1
           /\ {out[p].res, out[q].res} = {"Success", "AlreadyProcessed"}
           /\ LET i == out[p].call.item
                  j == out[q].call.item IN
                IF i = j THEN out[p].call.q0 - qty[i] = 1
                ELSE (out[p].call.q0 - qty[i]) + (out[q].call.q0 - qty[j]) = 1

\* C5: a request starts pending and changes status at most once: once it is
\* approved or rejected its status never changes again.
C5_RequestTransitionsOnce ==
    [][ /\ \A r \in DOMAIN requests :
              /\ r \in DOMAIN requests'
              /\ requests[r].status # "pending"
                    => requests'[r].status = requests[r].status
        /\ \A r \in DOMAIN requests' \ DOMAIN requests :
              requests'[r].status = "pending" ]_vars

\* C6: the commit of an approve_request that was invoked on a pending
\* request and an item with quantity > 0 lowers that item's quantity by
\* exactly 1, adds exactly one assignment (that item, the request's staff,
\* status assigned) and sets the request's status to approved.
C6_ApproveEffect ==
    [][ \A p \in Procs :
          ( /\ pc[p] = "ap_commit" /\ pc'[p] = "idle"
            /\ call[p].s0 = "pending" /\ call[p].q0 > 0 )
          => LET i == call[p].item
                 r == call[p].req IN
               /\ qty'[i] = qty[i] - 1
               /\ \A j \in items \ {i} : qty'[j] = qty[j]
               /\ Len(assignments') = Len(assignments) + 1
               /\ assignments'[Len(assignments')].item = i
               /\ assignments'[Len(assignments')].staff = requests[r].staff
               /\ assignments'[Len(assignments')].status = "assigned"
               /\ requests'[r].status = "approved"
               /\ out'[p].res = "Success" ]_vars

\* C7: approve_request on a pending request and an existing item whose
\* quantity is <= 0 signals ItemUnavailable and changes nothing.
C7_ApproveUnavailable ==
    [][ \A p \in Procs :
          ( /\ Finishes(p)
            /\ out'[p].call.op = "approve"
            /\ out'[p].call.s0 = "pending"
            /\ out'[p].call.item \in items
            /\ out'[p].call.q0 <= 0 )
          => /\ out'[p].res = "ItemUnavailable"
             /\ UNCHANGED <<items, qty, requests, assignments>> ]_vars

\* C8: approve_request or reject_request on a request that is already
\* approved or rejected signals AlreadyProcessed and changes nothing.
C8_AlreadyProcessed ==
    [][ \A p \in Procs :
          ( /\ Finishes(p)
            /\ out'[p].call.op \in {"approve", "reject"}
            /\ out'[p].call.s0 \in {"approved", "rejected"} )
          => /\ out'[p].res = "AlreadyProcessed"
             /\ UNCHANGED <<items, qty, requests, assignments>> ]_vars

\* C9: round trip: when complete_return commits on an assignment that an
\* approve_request created, and the only committed write of the item's
\* quantity since that approval was invoked is the approval's own, the
\* item's quantity is again what it was when the approval was invoked.
C9_RoundTrip ==
    [][ \A p \in Procs :
          ( /\ pc[p] = "cr_commit" /\ pc'[p] = "idle"
            /\ call[p].item \in items
            /\ assignments[call[p].asg].req # 0
            /\ wr[call[p].item] = assignments[call[p].asg].w0 + 1 )
          => qty'[call[p].item] = assignments[call[p].asg].pre ]_vars

\* C9 witness: an approved request's assignment has been returned, with the
\* approval and the completion the only writes of the item's quantity.
C9_Witness ==
    \E a \in DOMAIN assignments :
        /\ assignments[a].status = "returned"
        /\ assignments[a].req # 0
        /\ wr[assignments[a].item] = assignments[a].w0 + 2
        /\ qty[assignments[a].item] = assignments[a].pre

\* C10: request_return by the owner on an assigned assignment moves it to
\* return_requested; by the owner on a return_requested assignment it
\* reports "already requested" and changes nothing.
C10_IdempotentReturnRequest ==
    [][ \A p \in Procs :
          ( /\ Finishes(p)
            /\ out'[p].call.op = "return"
            /\ out'[p].call.asg \in DOMAIN assignments
            /\ assignments[out'[p].call.asg].staff = out'[p].call.staff )
          => /\ out'[p].call.s0 = "assigned"
                  => /\ out'[p].res = "Success"
                     /\ assignments'[out'[p].call.asg].status = "return_requested"
                     /\ qty' = qty
             /\ out'[p].call.s0 = "return_requested"
                  => /\ out'[p].res = "AlreadyRequested"
                     /\ UNCHANGED <<items, qty, requests, assignments>> ]_vars

\* C10 witness: the owner's repeated request_return has been answered
\* "already requested" and the assignment is still return_requested.
C10_Witness ==
    \E p \in Procs :
        /\ out[p].call.op = "return"
        /\ out[p].res = "AlreadyRequested"
        /\ out[p].call.s0 = "return_requested"
        /\ assignments[out[p].call.asg].status = "return_requested"
        /\ assignments[out[p].call.asg].staff = out[p].call.staff

\* So far the only calls that changed the store were approvals of pending
\* requests against item i, none of which lost an update: every assignment
\* is an assigned one of item i made for a request, and each took one unit.
OnlyApprovalsOf(i) ==
    /\ \A a \in DOMAIN assignments :
          /\ assignments[a].item = i
          /\ assignments[a].req # 0
          /\ assignments[a].status = "assigned"
    /\ qty[i] + Len(assignments) = qty0[i]
    /\ \A j \in items \ {i} : qty[j] = qty0[j]
    /\ \A r \in DOMAIN requests : requests[r].status \in {"pending", "approved"}
    /\ Cardinality({r \in DOMAIN requests : requests[r].status = "approved"})
          = Len(assignments)

\* C11: sequential exhaustion: with an item of ScenarioQty units and
\* ScenarioQty + 1 pending requests approved one after another against it,
\* the first ScenarioQty approvals succeed (each takes one unit and creates
\* one assignment, leaving quantity 0), and the next one returns
\* ItemUnavailable with its request still pending and no further assignment.
C11_SequentialExhaustion ==
    [][ \A p \in Procs, i \in items :
          ( /\ Finishes(p)
            /\ InFlight \ {p} = {}
            /\ \A q \in Procs \ {p} : out[q] = NoOut
            /\ out'[p].call.op = "approve"
            /\ out'[p].call.item = i
            /\ out'[p].call.s0 = "pending"
            /\ out'[p].call.conc = {}
            /\ qty0[i] = ScenarioQty
            /\ OnlyApprovalsOf(i) )
          => IF Len(assignments) < ScenarioQty
               THEN /\ out'[p].res = "Success"
                    /\ qty'[i] = qty[i] - 1
                    /\ Len(assignments') = Len(assignments) + 1
                    /\ Len(assignments') = ScenarioQty => qty'[i] = 0
               ELSE /\ out'[p].res = "ItemUnavailable"
                    /\ requests'[out'[p].call.req].status = "pending"
                    /\ assignments' = assignments
                    /\ qty' = qty ]_vars

\* C12: the commit of a manual_assignment that was invoked on an item with
\* quantity > 0 lowers that item's quantity by exactly 1 and creates one
\* assignment (that item, the named staff, status assigned), leaving every
\* request unchanged; a manual_assignment invoked on an item with quantity
\* <= 0 signals ItemUnavailable and changes nothing.
C12_ManualAssignEffect ==
    [][ \A p \in Procs :
          /\ ( /\ pc[p] = "ma_commit" /\ pc'[p] = "idle"
               /\ call[p].q0 > 0 )
             => LET i == call[p].item IN
                  /\ out'[p].res = "Success"
                  /\ qty'[i] = qty[i] - 1
                  /\ \A j \in items \ {i} : qty'[j] = qty[j]
                  /\ Len(assignments') = Len(assignments) + 1
                  /\ assignments'[Len(assignments')].item = i
                  /\ assignments'[Len(assignments')].staff = call[p].staff
                  /\ assignments'[Len(assignments')].status = "assigned"
                  /\ requests' = requests
          /\ ( /\ Finishes(p)
               /\ out'[p].call.op = "manual"
               /\ out'[p].call.item \in items
               /\ out'[p].call.q0 <= 0 )
             => /\ out'[p].res = "ItemUnavailable"
                /\ UNCHANGED <<items, qty, requests, assignments>> ]_vars

\* C13: request_return by a staff member who does not own the assignment
\* signals NotFound (or Forbidden) and leaves the assignment's status as it
\* is, whatever that status is.
C13_ReturnByNonOwner ==
    [][ \A p \in Procs :
          ( /\ Finishes(p)
            /\ out'[p].call.op = "return"
            /\ out'[p].call.asg \in DOMAIN assignments
            /\ assignments[out'[p].call.asg].staff # out'[p].call.staff )
          => /\ out'[p].res \in {"NotFound", "Forbidden"}
             /\ assignments'[out'[p].call.asg].status
                   = assignments[out'[p].call.asg].status ]_vars

\* C13 witness: a staff member's request_return on another member's
\* assigned assignment was answered NotFound and the assignment is still
\* assigned.
C13_Witness ==
    \E p \in Procs :
        /\ out[p].call.op = "return"
        /\ out[p].res = "NotFound"
        /\ out[p].call.asg \in DOMAIN assignments
        /\ assignments[out[p].call.asg].staff # out[p].call.staff
        /\ out[p].call.s0 = "assigned"
        /\ assignments[out[p].call.asg].status = "assigned"

\* C14: request_return by the owner on a returned assignment signals
\* InvalidState and leaves the assignment returned and every item's
\* quantity unchanged.
C14_ReturnOnReturned ==
    [][ \A p \in Procs :
          ( /\ Finishes(p)
            /\ out'[p].call.op = "return"
            /\ out'[p].call.asg \in DOMAIN assignments
            /\ assignments[out'[p].call.asg].staff = out'[p].call.staff
            /\ out'[p].call.s0 = "returned" )
          => /\ out'[p].res = "InvalidState"
             /\ assignments'[out'[p].call.asg].status = "returned"
             /\ UNCHANGED <<items, qty>> ]_vars

\* C14 witness: the owner's request_return on a returned assignment was
\* answered InvalidState.
C14_Witness ==
    \E p \in Procs :
        /\ out[p].call.op = "return"
        /\ out[p].res = "InvalidState"
        /\ out[p].call.s0 = "returned"
        /\ assignments[out[p].call.asg].staff = out[p].call.staff
        /\ assignments[out[p].call.asg].status = "returned"

\* C15: complete_return on an assignment that is assigned or returned
\* signals InvalidState and changes neither the assignment (status and
\* return date are written together) nor any item's quantity.
C15_CompleteNeedsReturnRequested ==
    [][ \A p \in Procs :
          ( /\ Finishes(p)
            /\ out'[p].call.op = "complete"
            /\ out'[p].call.s0 \in {"assigned", "returned"} )
          => /\ out'[p].res = "InvalidState"
             /\ UNCHANGED <<items, qty, assignments>> ]_vars

\* C15 witness: complete_return on an assigned assignment was answered
\* InvalidState and the assignment is still assigned.
C15_Witness ==
    \E p \in Procs :
        /\ out[p].call.op = "complete"
        /\ out[p].res = "InvalidState"
        /\ out[p].call.s0 = "assigned"
        /\ assignments[out[p].call.asg].status = "assigned"

\* C16: complete_return on a return_requested assignment whose item no
\* longer existed when the call was made succeeds: the assignment becomes
\* returned and no item's quantity changes.
C16_CompleteWithoutItem ==
    [][ \A p \in Procs :
          ( /\ pc[p] = "cr_commit" /\ pc'[p] = "idle"
            /\ ~call[p].had )
          => /\ out'[p].res = "Success"
             /\ assignments'[call[p].asg].status = "returned"
             /\ UNCHANGED <<items, qty>> ]_vars

\* C16 witness: a return has been completed for an assignment whose item
\* had been deleted before the call.
C16_Witness ==
    \E p \in Procs :
        /\ out[p].call.op = "complete"
        /\ out[p].res = "Success"
        /\ ~out[p].call.had
        /\ out[p].call.item \notin items
        /\ assignments[out[p].call.asg].status = "returned"
        /\ qty = qty0

\* C17: submit_request with valid inputs adds exactly one request, pending
\* and owned by the submitting staff member, and leaves every item's
\* quantity, every assignment and every existing request unchanged.
C17_SubmitRequestEffect ==
    [][ \A p \in Procs :
          ( /\ Finishes(p)
            /\ out'[p].call.op = "submit" )
          => /\ Len(requests') = Len(requests) + 1
             /\ requests'[Len(requests')] =
                   [staff |-> out'[p].call.staff, status |-> "pending"]
             /\ \A r \in DOMAIN requests : requests'[r] = requests[r]
             /\ UNCHANGED <<items, qty, assignments>> ]_vars

\* C17 witness: a submitted request is pending next to the earlier ones.
C17_Witness ==
    \E p \in Procs :
        /\ out[p].call.op = "submit"
        /\ out[p].res = "Success"
        /\ out[p].call.req = Len(requests)
        /\ Len(requests) > 1
        /\ requests[Len(requests)] =
              [staff |-> out[p].call.staff, status |-> "pending"]

\* The rows and quantities the store holds.
Store == <<items, qty, requests, assignments, wr>>

\* C18: all-or-nothing: a step changes the store only when it is the
\* successful commit of a call (a call that ends otherwise, or has not
\* committed yet, leaves the store as it was), and the commit of
\* approve_request, manual_assignment or complete_return carries all the
\* writes of its operation: the quantity of the item is written together
\* with the new assignment (and, for an approval, the request's status), or
\* together with the assignment's status returned; a quantity is written
\* and an assignment is created by no other step.
C18_AllOrNothing ==
    [][ /\ Store' # Store
            => \E p \in Procs : Finishes(p) /\ out'[p].res = "Success"
        /\ \A p \in Procs :
              (Finishes(p) /\ out'[p].res = "Success")
              => LET c == out'[p].call
                     n == assignments'[Len(assignments')] IN
                   /\ c.op \in {"approve", "manual"}
                        => /\ wr'[c.item] = wr[c.item] + 1
                           /\ Len(assignments') = Len(assignments) + 1
                           /\ n.item = c.item /\ n.req = c.req
                           /\ n.status = "assigned"
                           /\ c.op = "approve"
                                => requests'[c.req].status = "approved"
                   /\ c.op = "complete"
                        => /\ assignments'[c.asg].status = "returned"
                           /\ c.item \in items => wr'[c.item] = wr[c.item] + 1
                   /\ c.op \notin {"approve", "manual"}
                        => Len(assignments') = Len(assignments)
                   /\ \A i \in ItemIds :
                         wr'[i] # wr[i]
                         => c.op \in {"approve", "manual", "complete"} /\ c.item = i ]_vars

\* C18 witness: a complete_return whose commit failed (its item was deleted
\* after it had been loaded) has left the assignment return_requested and
\* every quantity as it was.
C18_Witness ==
    \E p \in Procs :
        /\ out[p].call.op = "complete"
        /\ out[p].res = "ServerError"
        /\ assignments[out[p].call.asg].status = "return_requested"
        /\ qty = qty0
        /\ wr = [i \in ItemIds |-> 0]

\* C19: existence is not leaked: request_return on an assignment of
\* another staff member, whatever its status, ends exactly as request_return
\* on an id for which no assignment exists: with the not-found answer and no
\* change of the store.
C19_ExistenceNotLeaked ==
    [][ \A p \in Procs :
          ( /\ Finishes(p)
            /\ out'[p].call.op = "return"
            /\ \/ out'[p].call.asg \notin DOMAIN assignments
               \/ assignments[out'[p].call.asg].staff # out'[p].call.staff )
          => /\ out'[p].res = "NotFound"
             /\ out'[p].made = 0
             /\ Store' = Store ]_vars

\* C19 witness: request_return on another member's return_requested
\* assignment was answered not-found.
C19_Witness ==
    \E p \in Procs :
        /\ out[p].call.op = "return"
        /\ out[p].res = "NotFound"
        /\ out[p].call.asg \in DOMAIN assignments
        /\ assignments[out[p].call.asg].staff # out[p].call.staff
        /\ out[p].call.s0 = "return_requested"

\* Position of a status in assigned -> return_requested -> returned.
StatusRank(status) ==
    IF status = "assigned" THEN 1 ELSE IF status = "return_requested" THEN 2 ELSE 3

\* C20: an assignment's status only moves forward along assigned ->
\* return_requested -> returned, under every interleaving of request_return
\* and complete_return.
C20_AssignmentStatusMonotone ==
    [][ \A a \in DOMAIN assignments :
          StatusRank(assignments'[a].status) >= StatusRank(assignments[a].status) ]_vars

\* C21: an approve_request and a reject_request on the same pending request
\* that overlapped only each other (the approval naming an item that had a
\* unit) end with exactly one of them taking effect: either the request is
\* approved, with one assignment made for it and the item's quantity lowered
\* by 1, or it is rejected, with no assignment made for it and the quantity
\* as it was; the other call ends AlreadyProcessed.
C21_ApproveRejectRace ==
    \A p, q \in Procs :
        ( /\ RacedPair(p, q)
          /\ out[p].call.op = "approve" /\ out[q].call.op = "reject"
          /\ out[p].call.req = out[q].call.req
          /\ out[p].call.s0 = "pending" /\ out[q].call.s0 = "pending"
          /\ out[p].call.item \in items
          /\ out[p].call.q0 > 0 )
        => LET r == out[p].call.req
               i == out[p].call.item
               made == {a \in DOMAIN assignments : assignments[a].req = r} IN
             /\ {out[p].res, out[q].res} = {"Success", "AlreadyProcessed"}
             /\ \/ /\ requests[r].status = "approved"
                   /\ out[p].res = "Success"
                   /\ Cardinality(made) = 1
                   /\ qty[i] = out[p].call.q0 - 1
                \/ /\ requests[r].status = "rejected"
                   /\ out[q].res = "Success"
                   /\ made = {}
                   /\ qty[i] = out[p].call.q0

\* C22: two complete_return calls on the same return_requested assignment
\* that overlapped only each other raise the quantity of its item by
\* exactly 1 in total.
C22_RestoreAtMostOnce ==
    \A p, q \in Procs :
        ( /\ RacedPair(p, q)
          /\ out[p].call.op = "complete" /\ out[q].call.op = "complete"
          /\ out[p].call.asg = out[q].call.asg
          /\ out[p].call.s0 = "return_requested"
          /\ out[q].call.s0 = "return_requested"
          /\ out[p].call.item \in items
          /\ out[p].call.q0 = out[q].call.q0 )
        => /\ assignments[out[p].call.asg].status = "returned"
           /\ qty[out[p].call.item] = out[p].call.q0 + 1
====
